---- MODULE Spec2Model ----
(***************************************************************************)
(* The collection iterator and the delta tracker of tm1-log-tracker        *)
(* (utils/odata.go) driven by the sample callback of main.go.              *)
(*                                                                         *)
(* One call of TrackCollection or IterateCollection is one behaviour: the  *)
(* call's arguments are drawn in Init, the server's answers (transport     *)
(* error, status, body) are drawn when a request is executed.  `trace` is  *)
(* the history of what the call did that can be seen from outside: the    *)
(* requests it sent, the callback invocations, the sleeps and the fatal    *)
(* exit.                                                                    *)
(***************************************************************************)
EXTENDS Integers, Sequences, FiniteSets, TLC

\* Bound of the model: the number of requests one call may issue.
MaxRequests == 3

\* The arguments the call is made with.
ServiceRootURLs == {"http://tm1:8088/api/v1/"}
Paths == {"", "MessageLogEntries"}
Intervals == {2, 5}

\* What the server can put into a response.
Statuses == {200, 404}
NextLinks == {"", "p2", "p3"}
DeltaLinks == {"", "d1", "d2"}

VARIABLES
    fn,          \* which function was called
    serviceRootURL,
    path,        \* the urlStr argument of the call
    interval,    \* the interval argument of TrackCollection
    pc,          \* position of the call in its loop
    urlStr,      \* TrackCollection's loop variable
    nextLink,    \* IterateCollection's loop variable / TrackCollection's local
    deltaLink,   \* TrackCollection's local
    resp,        \* the response of the current cycle
    body,        \* the bytes ReadAll returned in the current cycle
    readErr,     \* the error ReadAll returned (and the code drops)
    openBodies,  \* response bodies obtained and not closed yet
    trace,       \* history: requests, callback invocations, sleeps, fatal exit
    args,        \* the other arguments of a call of a request helper or of
                 \* ValidateStatusCode
    env,         \* main: the environment variables
    threadMap,   \* main.go: thread ID -> start time of the view being created
    queryCount,  \* main.go: views seen created
    output,      \* main.go: the lines printed
    processed    \* history: the entries the callback has gone through

vars == <<fn, serviceRootURL, path, interval, pc, urlStr, nextLink, deltaLink,
          resp, body, readErr, openBodies, trace, args, env, threadMap, queryCount,
          output, processed>>

callVars == <<args, env>>
logVars == <<threadMap, queryCount, output, processed>>

\* No call arguments, no environment read, and main.go's globals as the
\* program starts with them (a nil map, zero).
NoArgs == [urlStr |-> "", contentType |-> "", body |-> "", preReq |-> <<>>,
           statusCode |-> 0, logFmt |-> ""]
NoEnv == [loaded |-> FALSE, interval |-> <<>>, authentication |-> ""]
NoThreads == [t \in {} |-> 0]

NoResp == [status |-> 0, body |-> [seq |-> 0, valid |-> FALSE, next |-> "", delta |-> ""]]
NoBody == [seq |-> 0, valid |-> FALSE, next |-> "", delta |-> ""]

----------------------------------------------------------------------------
\* Requests

NewRequest(method, url) == [method |-> method, url |-> url, header |-> <<>>]

HeaderAdd(req, key, value) == [req EXCEPT !.header = Append(@, <<key, value>>)]

HeaderHas(req, key, value) == \E i \in DOMAIN req.header : req.header[i] = <<key, value>>

\* A request that asks for JSON and names no protocol version.
GETRequestNoVersion(url) ==
    HeaderAdd(NewRequest("GET", url), "Accept", "application/json")

\* The request ExecuteGETRequest sends.
GETRequest(url) ==
    HeaderAdd(HeaderAdd(NewRequest("GET", url), "OData-Version", "4.0"),
              "Accept", "application/json")

\* A preReq hook is given by what it does to the request's header: a sequence
\* of Header.Add, Header.Set and Header.Del calls.
HeaderSet(req, key, value) ==
    [req EXCEPT !.header = Append(SelectSeq(@, LAMBDA p : p[1] # key), <<key, value>>)]

HeaderDel(req, key) ==
    [req EXCEPT !.header = SelectSeq(@, LAMBDA p : p[1] # key)]

ApplyCall(req, call) ==
    CASE call[1] = "Add" -> HeaderAdd(req, call[2], call[3])
      [] call[1] = "Set" -> HeaderSet(req, call[2], call[3])
      [] call[1] = "Del" -> HeaderDel(req, call[2])

RunPreReq(req, preReq) ==
    LET after[i \in 0..Len(preReq)] ==
            IF i = 0 THEN req ELSE ApplyCall(after[i - 1], preReq[i])
    IN  after[Len(preReq)]

\* A hook that leaves the request as it was built.
TrackPreReqNone == <<>>

\* The hook TrackCollection passes to ExecuteGETRequestEx:
\* func(req) { req.Header.Add("Prefer", "odata.track-changes") }
TrackPreReq == <<<<"Add", "Prefer", "odata.track-changes">>>>

\* The request ExecuteGETRequestEx sends: the hook runs on the built request.
GETRequestEx(url, preReq) == RunPreReq(GETRequest(url), preReq)

\* The link alone, without the service root in front of it.
TrackRequestForLinkOnly(link) == GETRequestEx(link, TrackPreReq)

\* The request of one TrackCollection cycle.
TrackRequestFor(link) == GETRequestEx(serviceRootURL \o link, TrackPreReq)

\* Every cycle asks for the path the call was made with.
IterateRequestForPath(link) == GETRequest(serviceRootURL \o urlStr)

\* The request of one IterateCollection cycle.
IterateRequestFor(link) == GETRequest(serviceRootURL \o link)

----------------------------------------------------------------------------
\* History

ReqEvent(req) == [type |-> "req", req |-> req]
CbEvent(bytes, ok, next, delta) ==
    [type |-> "cb", bytes |-> bytes, ok |-> ok, next |-> next, delta |-> delta]
SleepEvent(d) == [type |-> "sleep", d |-> d]
FatalEvent(kind) == [type |-> "fatal", kind |-> kind]

Indices(type) == {i \in DOMAIN trace : trace[i].type = type}
NumRequests == Cardinality(Indices("req"))

----------------------------------------------------------------------------
\* Server and transport

\* The bodies the server can send as the seq-th response.  A body that is not
\* valid JSON carries no links.
ServerBodies(seq) ==
    {[seq |-> seq, valid |-> TRUE, next |-> n, delta |-> d] :
        n \in NextLinks, d \in DeltaLinks}
    \cup {[seq |-> seq, valid |-> FALSE, next |-> "", delta |-> ""]}

ServerResponses(seq) ==
    {[status |-> s, body |-> b] : s \in Statuses, b \in ServerBodies(seq)}

\* A body cut short by a read error is not a JSON document any more.
Truncated(b) == [b EXCEPT !.valid = FALSE, !.next = "", !.delta = ""]

\* A read that hands back the bytes of the cycle before.
ReadAllStale(b) == {<<body, FALSE>>}

\* ioutil.ReadAll: the bytes and whether an error came with them.  An error
\* leaves either the cut body or, when it hit after the document's end
\* (trailing bytes, a wrong Content-Length), the whole document.
ReadAll(b) == {<<b, FALSE>>, <<b, TRUE>>, <<Truncated(b), TRUE>>}

----------------------------------------------------------------------------
Init ==
    /\ fn \in {"TrackCollection", "IterateCollection"}
    /\ serviceRootURL \in ServiceRootURLs
    /\ path \in Paths
    /\ interval \in IF fn = "TrackCollection" THEN Intervals ELSE {0}
    /\ pc = "loop"
    /\ urlStr = path
    /\ nextLink = IF fn = "IterateCollection" THEN path ELSE ""
    /\ deltaLink = ""
    /\ resp = NoResp
    /\ body = NoBody
    /\ readErr = FALSE
    /\ openBodies = {}
    /\ trace = <<>>
    /\ args = NoArgs
    /\ env = NoEnv
    /\ threadMap = NoThreads
    /\ queryCount = 0
    /\ output = <<>>
    /\ processed = <<>>

----------------------------------------------------------------------------
\* The callbacks

\* processMessageLogEntries (main.go): json.Unmarshal fails fatally on bytes
\* that are no JSON document; otherwise the two links of the document are
\* returned.
ProcessMessageLogEntries(bytes) ==
    IF bytes.valid
    THEN [ok |-> TRUE, next |-> bytes.next, delta |-> bytes.delta]
    ELSE [ok |-> FALSE, next |-> "", delta |-> ""]

\* The callback handed to IterateCollection, func([]byte) (int, string): it
\* returns the next link of the document, or does not return at all.
IterateProcessResponse(bytes) ==
    IF bytes.valid
    THEN [ok |-> TRUE, next |-> bytes.next, delta |-> ""]
    ELSE [ok |-> FALSE, next |-> "", delta |-> ""]

----------------------------------------------------------------------------
\* The end of one pass through the loop body: resp and body (and, in
\* TrackCollection, nextLink and deltaLink) are declared inside the body and
\* are gone when the loop goes round.
TrackBodyEnds ==
    /\ resp' = NoResp
    /\ body' = NoBody
    /\ readErr' = FALSE
    /\ nextLink' = ""
    /\ deltaLink' = ""

IterateBodyEnds ==
    /\ resp' = NoResp
    /\ body' = NoBody
    /\ readErr' = FALSE

----------------------------------------------------------------------------
\* TrackCollection

\* The loop with its test at the end: the first pass does not look at urlStr.
TrackLoopTestsAfter ==
    /\ fn = "TrackCollection"
    /\ pc = "loop"
    /\ urlStr # "" \/ trace = <<>>
    /\ NumRequests < MaxRequests
    /\ LET req == TrackRequestFor(urlStr)
           seq == NumRequests + 1
       IN  \/ /\ trace' = trace \o <<ReqEvent(req), FatalEvent("transport")>>
              /\ pc' = "fatal"
              /\ UNCHANGED <<resp, openBodies>>
           \/ \E r \in ServerResponses(seq) :
                /\ resp' = r
                /\ openBodies' = openBodies \cup {seq}
                /\ trace' = Append(trace, ReqEvent(req))
                /\ pc' = "read"
    /\ UNCHANGED <<fn, serviceRootURL, path, interval, urlStr, nextLink, deltaLink,
                   body, readErr>>
    /\ UNCHANGED <<callVars, logVars>>

\* for urlStr := urlStr; urlStr != ""; { resp := client.ExecuteGETRequestEx(...)
\* client.Do either fails (log.Fatal) or returns a response whose body is
\* open; the deferred Close waits for the function to return.
TrackLoop ==
    /\ fn = "TrackCollection"
    /\ pc = "loop"
    /\ urlStr # ""
    /\ NumRequests < MaxRequests
    /\ LET req == TrackRequestFor(urlStr)
           seq == NumRequests + 1
       IN  \/ /\ trace' = trace \o <<ReqEvent(req), FatalEvent("transport")>>
              /\ pc' = "fatal"
              /\ UNCHANGED <<resp, openBodies>>
           \/ \E r \in ServerResponses(seq) :
                /\ resp' = r
                /\ openBodies' = openBodies \cup {seq}
                /\ trace' = Append(trace, ReqEvent(req))
                /\ pc' = "read"
    /\ UNCHANGED <<fn, serviceRootURL, path, interval, urlStr, nextLink, deltaLink,
                   body, readErr>>
    /\ UNCHANGED <<callVars, logVars>>

\* The loop condition fails: the function returns and the deferred Closes run.
TrackReturn ==
    /\ fn = "TrackCollection"
    /\ pc = "loop"
    /\ urlStr = ""
    /\ openBodies' = {}
    /\ pc' = "returned"
    /\ UNCHANGED <<fn, serviceRootURL, path, interval, urlStr, nextLink, deltaLink,
                   resp, body, readErr, trace>>
    /\ UNCHANGED <<callVars, logVars>>

\* A read whose error ends the run, as a checked error would.
TrackReadFailsOnError ==
    /\ fn = "TrackCollection"
    /\ pc = "read"
    /\ \E r \in ReadAll(resp.body) :
         /\ body' = r[1]
         /\ readErr' = r[2]
         /\ IF r[2]
            THEN /\ trace' = Append(trace, FatalEvent("read"))
                 /\ pc' = "fatal"
            ELSE /\ pc' = "process"
                 /\ UNCHANGED trace
    /\ UNCHANGED <<fn, serviceRootURL, path, interval, urlStr, nextLink, deltaLink,
                   resp, openBodies>>
    /\ UNCHANGED <<callVars, logVars>>

\* body, _ := ioutil.ReadAll(resp.Body)
TrackRead ==
    /\ fn = "TrackCollection"
    /\ pc = "read"
    /\ \E r \in ReadAll(resp.body) :
         /\ body' = r[1]
         /\ readErr' = r[2]
    /\ pc' = "process"
    /\ UNCHANGED <<fn, serviceRootURL, path, interval, urlStr, nextLink, deltaLink,
                   resp, openBodies, trace>>
    /\ UNCHANGED <<callVars, logVars>>

\* The callback without its check of json.Unmarshal's error: the zero-valued
\* result (no links) is returned.
TrackProcessIgnoresError ==
    /\ fn = "TrackCollection"
    /\ pc = "process"
    /\ LET r == ProcessMessageLogEntries(body)
       IN  /\ nextLink' = r.next
           /\ deltaLink' = r.delta
           /\ trace' = Append(trace, CbEvent(body, r.ok, r.next, r.delta))
           /\ pc' = "decide"
    /\ UNCHANGED <<fn, serviceRootURL, path, interval, urlStr, resp, body, readErr,
                   openBodies>>
    /\ UNCHANGED <<callVars, logVars>>

\* nextLink, deltaLink := processResponse(body)
TrackProcess ==
    /\ fn = "TrackCollection"
    /\ pc = "process"
    /\ LET r == ProcessMessageLogEntries(body)
       IN  IF r.ok
           THEN /\ nextLink' = r.next
                /\ deltaLink' = r.delta
                /\ trace' = Append(trace, CbEvent(body, TRUE, r.next, r.delta))
                /\ pc' = "decide"
           ELSE /\ trace' = trace \o <<CbEvent(body, FALSE, "", ""), FatalEvent("decode")>>
                /\ pc' = "fatal"
                /\ UNCHANGED <<nextLink, deltaLink>>
    /\ UNCHANGED <<fn, serviceRootURL, path, interval, urlStr, resp, body, readErr,
                   openBodies>>
    /\ UNCHANGED <<callVars, logVars>>

\* Variants of the decision that differ from the code in one branch each.
\* The delta branch without its time.Sleep.
TrackDecideNoSleep ==
    /\ fn = "TrackCollection"
    /\ pc = "decide"
    /\ IF nextLink # ""
       THEN /\ urlStr' = nextLink
            /\ pc' = "loop"
            /\ TrackBodyEnds
            /\ UNCHANGED <<trace, openBodies>>
       ELSE IF deltaLink # ""
       THEN /\ urlStr' = deltaLink
            /\ pc' = "loop"
            /\ TrackBodyEnds
            /\ UNCHANGED <<trace, openBodies>>
       ELSE /\ openBodies' = {}
            /\ pc' = "returned"
            /\ UNCHANGED <<urlStr, trace, nextLink, deltaLink, resp, body, readErr>>
    /\ UNCHANGED <<fn, serviceRootURL, path, interval>>
    /\ UNCHANGED <<callVars, logVars>>

\* time.Sleep moved in front of the branches that continue.
TrackDecideSleepsAlways ==
    /\ fn = "TrackCollection"
    /\ pc = "decide"
    /\ IF nextLink # ""
       THEN /\ trace' = Append(trace, SleepEvent(interval))
            /\ urlStr' = nextLink
            /\ pc' = "loop"
            /\ TrackBodyEnds
            /\ UNCHANGED openBodies
       ELSE IF deltaLink # ""
       THEN /\ trace' = Append(trace, SleepEvent(interval))
            /\ pc' = "sleep"
            /\ UNCHANGED <<urlStr, openBodies, nextLink, deltaLink, resp, body, readErr>>
       ELSE /\ openBodies' = {}
            /\ pc' = "returned"
            /\ UNCHANGED <<urlStr, trace, nextLink, deltaLink, resp, body, readErr>>
    /\ UNCHANGED <<fn, serviceRootURL, path, interval>>
    /\ UNCHANGED <<callVars, logVars>>

\* The final else without its break: the loop goes round with urlStr as it is.
TrackDecideNoBreak ==
    /\ fn = "TrackCollection"
    /\ pc = "decide"
    /\ IF nextLink # ""
       THEN /\ urlStr' = nextLink
            /\ pc' = "loop"
            /\ TrackBodyEnds
            /\ UNCHANGED <<trace, openBodies>>
       ELSE IF deltaLink # ""
       THEN /\ trace' = Append(trace, SleepEvent(interval))
            /\ pc' = "sleep"
            /\ UNCHANGED <<urlStr, openBodies, nextLink, deltaLink, resp, body, readErr>>
       ELSE /\ pc' = "loop"
            /\ TrackBodyEnds
            /\ UNCHANGED <<urlStr, trace, openBodies>>
    /\ UNCHANGED <<fn, serviceRootURL, path, interval>>
    /\ UNCHANGED <<callVars, logVars>>

\* The two tests in the other order: a delta link wins over a next link.
TrackDecideDeltaFirst ==
    /\ fn = "TrackCollection"
    /\ pc = "decide"
    /\ IF deltaLink # ""
       THEN /\ trace' = Append(trace, SleepEvent(interval))
            /\ pc' = "sleep"
            /\ UNCHANGED <<urlStr, openBodies, nextLink, deltaLink, resp, body, readErr>>
       ELSE IF nextLink # ""
       THEN /\ urlStr' = nextLink
            /\ pc' = "loop"
            /\ TrackBodyEnds
            /\ UNCHANGED <<trace, openBodies>>
       ELSE /\ openBodies' = {}
            /\ pc' = "returned"
            /\ UNCHANGED <<urlStr, trace, nextLink, deltaLink, resp, body, readErr>>
    /\ UNCHANGED <<fn, serviceRootURL, path, interval>>
    /\ UNCHANGED <<callVars, logVars>>

\* The delta branch leaves the loop instead of polling on.
TrackDecideStopsOnDelta ==
    /\ fn = "TrackCollection"
    /\ pc = "decide"
    /\ IF nextLink # ""
       THEN /\ urlStr' = nextLink
            /\ pc' = "loop"
            /\ TrackBodyEnds
            /\ UNCHANGED <<trace, openBodies>>
       ELSE /\ openBodies' = {}
            /\ pc' = "returned"
            /\ UNCHANGED <<urlStr, trace, nextLink, deltaLink, resp, body, readErr>>
    /\ UNCHANGED <<fn, serviceRootURL, path, interval>>
    /\ UNCHANGED <<callVars, logVars>>

\* if nextLink != "" { urlStr = nextLink } else if deltaLink != "" {
\* time.Sleep(interval) ... } else { break }: with a next link the loop goes
\* round at once, with a delta link the call enters time.Sleep, and the break
\* leaves the function, so that the deferred Closes run.
TrackDecide ==
    /\ fn = "TrackCollection"
    /\ pc = "decide"
    /\ IF nextLink # ""
       THEN /\ urlStr' = nextLink
            /\ pc' = "loop"
            /\ TrackBodyEnds
            /\ UNCHANGED <<trace, openBodies>>
       ELSE IF deltaLink # ""
       THEN /\ trace' = Append(trace, SleepEvent(interval))
            /\ pc' = "sleep"
            /\ UNCHANGED <<urlStr, openBodies, nextLink, deltaLink, resp, body, readErr>>
       ELSE /\ openBodies' = {}
            /\ pc' = "returned"
            /\ UNCHANGED <<urlStr, trace, nextLink, deltaLink, resp, body, readErr>>
    /\ UNCHANGED <<fn, serviceRootURL, path, interval>>
    /\ UNCHANGED <<callVars, logVars>>

\* time.Sleep returns; urlStr = deltaLink, and the loop goes round.
TrackWake ==
    /\ fn = "TrackCollection"
    /\ pc = "sleep"
    /\ urlStr' = deltaLink
    /\ pc' = "loop"
    /\ TrackBodyEnds
    /\ UNCHANGED <<fn, serviceRootURL, path, interval, openBodies, trace>>
    /\ UNCHANGED <<callVars, logVars>>

----------------------------------------------------------------------------
\* IterateCollection

\* for nextLink := urlStr; nextLink != ""; { resp := client.ExecuteGETRequest(...)
IterateLoop ==
    /\ fn = "IterateCollection"
    /\ pc = "loop"
    /\ nextLink # ""
    /\ NumRequests < MaxRequests
    /\ LET req == IterateRequestFor(nextLink)
           seq == NumRequests + 1
       IN  \/ /\ trace' = trace \o <<ReqEvent(req), FatalEvent("transport")>>
              /\ pc' = "fatal"
              /\ UNCHANGED <<resp, openBodies>>
           \/ \E r \in ServerResponses(seq) :
                /\ resp' = r
                /\ openBodies' = openBodies \cup {seq}
                /\ trace' = Append(trace, ReqEvent(req))
                /\ pc' = "read"
    /\ UNCHANGED <<fn, serviceRootURL, path, interval, urlStr, nextLink, deltaLink,
                   body, readErr>>
    /\ UNCHANGED <<callVars, logVars>>

\* The loop condition fails: the function returns and the deferred Closes run.
IterateReturn ==
    /\ fn = "IterateCollection"
    /\ pc = "loop"
    /\ nextLink = ""
    /\ openBodies' = {}
    /\ pc' = "returned"
    /\ UNCHANGED <<fn, serviceRootURL, path, interval, urlStr, nextLink, deltaLink,
                   resp, body, readErr, trace>>
    /\ UNCHANGED <<callVars, logVars>>

\* body, _ := ioutil.ReadAll(resp.Body)
IterateRead ==
    /\ fn = "IterateCollection"
    /\ pc = "read"
    /\ \E r \in ReadAll(resp.body) :
         /\ body' = r[1]
         /\ readErr' = r[2]
    /\ pc' = "process"
    /\ UNCHANGED <<fn, serviceRootURL, path, interval, urlStr, nextLink, deltaLink,
                   resp, openBodies, trace>>
    /\ UNCHANGED <<callVars, logVars>>

\* _, nextLink = processResponse(body)
IterateProcess ==
    /\ fn = "IterateCollection"
    /\ pc = "process"
    /\ LET r == IterateProcessResponse(body)
       IN  IF r.ok
           THEN /\ nextLink' = r.next
                /\ trace' = Append(trace, CbEvent(body, TRUE, r.next, ""))
                /\ pc' = "loop"
                /\ IterateBodyEnds
           ELSE /\ trace' = trace \o <<CbEvent(body, FALSE, "", ""), FatalEvent("decode")>>
                /\ pc' = "fatal"
                /\ UNCHANGED <<nextLink, resp, body, readErr>>
    /\ UNCHANGED <<fn, serviceRootURL, path, interval, urlStr, deltaLink, openBodies>>
    /\ UNCHANGED <<callVars, logVars>>

----------------------------------------------------------------------------
Next ==
    \/ TrackLoop
    \/ TrackReturn
    \/ TrackRead
    \/ TrackProcess
    \/ TrackDecide
    \/ TrackWake
    \/ IterateLoop
    \/ IterateReturn
    \/ IterateRead
    \/ IterateProcess

Spec == Init /\ [][Next]_vars

TypeOK ==
    /\ pc \in {"call", "main", "validate", "version", "check", "callback", "loop", "read",
                "process", "decide", "sleep", "returned", "fatal", "panic"}
    /\ urlStr \in Paths \cup NextLinks \cup DeltaLinks
    /\ NumRequests <= MaxRequests

----------------------------------------------------------------------------
\* Reading the history

NumCallbacks == Cardinality(Indices("cb"))

\* Callback invocations that returned, by what they returned.
Returned == {i \in Indices("cb") : trace[i].ok}
NextCallbacks == {i \in Returned : trace[i].next # ""}
DeltaCallbacks == {i \in Returned : trace[i].next = "" /\ trace[i].delta # ""}
BothCallbacks == {i \in Returned : trace[i].next # "" /\ trace[i].delta # ""}
StopCallbacks == {i \in Returned : trace[i].next = "" /\ trace[i].delta = ""}

IsRequestTo(e, link) == e.type = "req" /\ e.req.url = serviceRootURL \o link

HasPrefer(e) == HeaderHas(e.req, "Prefer", "odata.track-changes")

Tracking == fn = "TrackCollection"
Iterating == fn = "IterateCollection"

----------------------------------------------------------------------------
\* C1: in TrackCollection, after a callback that returned an empty nextLink
\* and a non-empty deltaLink, the next thing the tracker does is one sleep of
\* the configured interval, and the request that follows it targets
\* serviceRootURL + deltaLink and carries Prefer: odata.track-changes.
C1_DeltaSleepsThenRequestsDelta ==
    Tracking =>
        \A i \in DeltaCallbacks :
            /\ i < Len(trace) => trace[i + 1] = SleepEvent(interval)
            /\ i + 1 < Len(trace) =>
                   /\ IsRequestTo(trace[i + 2], trace[i].delta)
                   /\ HasPrefer(trace[i + 2])
            /\ i = Len(trace) => pc = "decide"

\* A delta callback has been followed by its sleep and the delta request.
C1_Witness ==
    /\ Tracking
    /\ \E i \in DeltaCallbacks : i + 2 <= Len(trace) /\ trace[i + 2].type = "req"

\* C2: in TrackCollection, after a callback that returned a non-empty
\* nextLink, the next thing the tracker does is the request to
\* serviceRootURL + nextLink: no sleep lies between them.
C2_NextLinkRequestedWithoutDelay ==
    Tracking =>
        \A i \in NextCallbacks :
            /\ i < Len(trace) => IsRequestTo(trace[i + 1], trace[i].next)
            /\ i = Len(trace) => pc \in {"decide", "loop"}

\* A next-page callback has been followed by the next-page request.
C2_Witness ==
    /\ Tracking
    /\ \E i \in NextCallbacks : i < Len(trace) /\ trace[i + 1].type = "req"

\* C3: in TrackCollection, a callback that returned both links empty is the
\* last thing the tracker does (no request, no sleep, no callback and no
\* fatal exit follows), and the call returns; a call that issued a request
\* returns in no other way.
C3_BothEmptyStops ==
    Tracking =>
        /\ \A i \in StopCallbacks : i = Len(trace) /\ pc \in {"decide", "returned"}
        /\ (pc = "returned" /\ trace # <<>>) => Len(trace) \in StopCallbacks

\* The tracker has returned after a callback with both links empty.
C3_Witness ==
    /\ Tracking
    /\ pc = "returned"
    /\ Len(trace) \in StopCallbacks

\* C4: in TrackCollection, after a callback that returned both links
\* non-empty, the next thing the tracker does is the request to
\* serviceRootURL + nextLink (no sleep), and no later request targets that
\* callback's deltaLink unless a callback in between returned it again.
C4_NextLinkWinsOverDeltaLink ==
    Tracking =>
        \A i \in BothCallbacks :
            /\ i < Len(trace) => IsRequestTo(trace[i + 1], trace[i].next)
            /\ \A k \in Indices("req") :
                   (k > i /\ IsRequestTo(trace[k], trace[i].delta)) =>
                       \E m \in Returned :
                           /\ i < m
                           /\ m < k
                           /\ trace[i].delta \in {trace[m].next, trace[m].delta}

\* A callback returned both links and two requests followed it.
C4_Witness ==
    /\ Tracking
    /\ \E i \in BothCallbacks : Cardinality({k \in Indices("req") : k > i}) >= 2

----------------------------------------------------------------------------
\* The k-th event of a type, and the requests and callback results in order.
KthIndex(type, k) ==
    CHOOSE i \in Indices(type) : Cardinality({j \in Indices(type) : j <= i}) = k

RequestURLs == [k \in 1..NumRequests |-> trace[KthIndex("req", k)].req.url]

CallbackResults ==
    [k \in 1..NumCallbacks |->
        <<trace[KthIndex("cb", k)].next, trace[KthIndex("cb", k)].delta>>]

\* The end-to-end scenario: page 1 (next p2), page 2 (delta d1), delta
\* response (both empty), each decoded by a callback that returned.
ScenarioResults == <<<<"p2", "">>, <<"", "d1">>, <<"", "">>>>

ScenarioURLs ==
    <<serviceRootURL \o "MessageLogEntries", serviceRootURL \o "p2",
      serviceRootURL \o "d1">>

\* C5 (as claimed): in a tracking run a response whose status is not 200
\* aborts the run: the run gets no further than reading that response and
\* handing it on, so no decision is taken from the callback's result, no
\* request follows and the call does not return normally.  (The diagnostic
\* the claim asks for presupposes this abort.)
C5_NonOKStatusAborts ==
    (Tracking /\ resp # NoResp /\ resp.status # 200) =>
        pc \in {"read", "process", "fatal"}

\* C6 (as claimed): the number of response bodies obtained and not yet closed
\* does not grow with the number of cycles: one cycle holds one body.
C6_OpenBodiesBounded == Cardinality(openBodies) <= 1

\* C7: TrackCollection invokes the callback once per response, on the bytes
\* read from that response, in the order of the requests, and the callback of
\* one cycle is over before the next request is issued; in the scenario page
\* 1 (next p2), page 2 (delta d1), delta response (both empty) it makes the
\* three requests path, p2, d1 and three callback invocations.
C7_CallbackOncePerResponseInOrder ==
    Tracking =>
        /\ NumCallbacks <= NumRequests
        /\ NumRequests <= NumCallbacks + 1
        /\ \A k \in 1..NumCallbacks :
               /\ KthIndex("req", k) < KthIndex("cb", k)
               /\ trace[KthIndex("cb", k)].bytes.seq = k
               /\ k < NumRequests => KthIndex("cb", k) < KthIndex("req", k + 1)
        /\ (resp # NoResp /\ NumCallbacks = NumRequests) =>
               /\ trace[KthIndex("cb", NumCallbacks)].bytes = body
               /\ resp.body.seq = NumRequests
               /\ body \in {resp.body, Truncated(resp.body)}
               /\ ~readErr => body = resp.body
        /\ (/\ path = "MessageLogEntries"
            /\ Returned = Indices("cb")
            /\ CallbackResults = ScenarioResults) =>
               /\ RequestURLs = ScenarioURLs
               /\ Len(trace) = 7
               /\ trace[5] = SleepEvent(interval)
               /\ pc \in {"decide", "returned"}

\* The scenario has run to its end.
C7_Witness ==
    /\ Tracking
    /\ path = "MessageLogEntries"
    /\ Returned = Indices("cb")
    /\ CallbackResults = ScenarioResults
    /\ pc = "returned"

\* C8: IterateCollection requests the caller's path first and then exactly
\* serviceRootURL + the link the previous callback invocation returned,
\* invokes the callback once per response, never sleeps, and the callback
\* that returns an empty link is the last thing it does before it returns.
C8_IterateFollowsNextLinks ==
    Iterating =>
        /\ \A j \in Indices("req") :
               IF j = 1
               THEN IsRequestTo(trace[1], path)
               ELSE /\ (j - 1) \in Returned
                    /\ trace[j - 1].next # ""
                    /\ IsRequestTo(trace[j], trace[j - 1].next)
        /\ \A j \in Indices("req") :
               j < Len(trace) => trace[j + 1].type \in {"cb", "fatal"}
        /\ \A i \in Indices("cb") : i > 1 /\ trace[i - 1].type = "req"
        /\ \A i \in Returned :
               IF trace[i].next = ""
               THEN i = Len(trace) /\ pc \in {"loop", "returned"}
               ELSE i < Len(trace) => trace[i + 1].type = "req"
        /\ (pc = "returned" /\ trace # <<>>) =>
               (Len(trace) \in Returned /\ trace[Len(trace)].next = "")
        /\ Indices("sleep") = {}

\* The iteration followed two links and returned after the third response.
C8_Witness ==
    /\ Iterating
    /\ pc = "returned"
    /\ NumRequests = 3
    /\ NumCallbacks = 3

\* C9: every request TrackCollection issues (the first, a next-page request,
\* a delta request) carries Prefer: odata.track-changes.
C9_EveryTrackRequestPrefers ==
    Tracking => \A j \in Indices("req") : HasPrefer(trace[j])

\* A run with a first request, a next-page request and a delta request.
C9_Witness ==
    /\ Tracking
    /\ \E i \in NextCallbacks : i < Len(trace) /\ trace[i + 1].type = "req"
    /\ \E i \in DeltaCallbacks : i + 1 < Len(trace) /\ trace[i + 2].type = "req"

\* C10: a fatal exit is the last thing a run does (no request, sleep or
\* callback follows it), a request that got no response and a callback that
\* failed to decode are followed by the fatal exit and by nothing else.
C10_ErrorsAbortTheRun ==
    /\ \A i \in Indices("fatal") :
           /\ i = Len(trace)
           /\ pc = "fatal"
           /\ i > 1
           /\ IF trace[i].kind = "transport"
              THEN trace[i - 1].type = "req"
              ELSE trace[i - 1].type = "cb" /\ ~trace[i - 1].ok
    /\ \A i \in Indices("cb") :
           ~trace[i].ok => (i < Len(trace) /\ trace[i + 1] = FatalEvent("decode"))
    /\ \A j \in Indices("req") :
           j < Len(trace) => trace[j + 1].type \in {"cb", "fatal"}
    /\ pc = "fatal" => (trace # <<>> /\ trace[Len(trace)].type = "fatal")

\* Both kinds of failure have aborted a run after at least one full cycle.
C10_Witness ==
    /\ pc = "fatal"
    /\ NumRequests >= 2
    /\ trace[Len(trace)].kind \in {"transport", "decode"}

----------------------------------------------------------------------------
\* TrackCollection alone, with the progress its single thread of control
\* makes: every step of the loop is taken in the end (a request is answered
\* or fails, time.Sleep returns).
TrackInit == Init /\ fn = "TrackCollection"

TrackNext ==
    \/ TrackLoop
    \/ TrackReturn
    \/ TrackRead
    \/ TrackProcess
    \/ TrackDecide
    \/ TrackWake

LiveSpec == TrackInit /\ [][TrackNext]_vars /\ WF_vars(TrackNext)

\* The tracker will issue another request: it stands before a request, or
\* the callback has returned a link, or it sleeps.
KeepsGoing ==
    \/ pc = "loop" /\ urlStr # ""
    \/ pc = "decide" /\ (nextLink # "" \/ deltaLink # "")
    \/ pc = "sleep"

\* C11: TrackCollection returns only after a callback that returned both
\* links empty (or at once, for an empty path), and as long as the last
\* callback returned a link the next request is issued in the end (up to the
\* MaxRequests requests of the model).
C11_RunsUntilBothLinksEmpty ==
    /\ [](pc = "returned" => (trace = <<>> \/ Len(trace) \in StopCallbacks))
    /\ \A k \in 0..(MaxRequests - 1) :
           (NumRequests = k /\ KeepsGoing) ~> (NumRequests = k + 1)

\* The tracker has come back from a sleep and issued the request after it.
C11_Witness ==
    /\ Tracking
    /\ NumRequests = 3
    /\ pc = "read"
    /\ Indices("sleep") # {}
    /\ trace[Len(trace) - 1].type = "sleep"

----------------------------------------------------------------------------
\* No callback so far was handed a document with a delta link.
NoDeltaSoFar == \A i \in Indices("cb") : trace[i].bytes.delta = ""

\* The request either function sends for a link: they differ in the Prefer
\* header and in nothing else.
PlainOrPreferRequest(link) ==
    IF Tracking
    THEN HeaderAdd(GETRequest(serviceRootURL \o link), "Prefer", "odata.track-changes")
    ELSE GETRequest(serviceRootURL \o link)

\* C16: as long as no response carried a delta link, what TrackCollection
\* and IterateCollection do is the same function of the path and of the
\* callback results: the k-th request goes to the path (k = 1) or to the
\* link the callback before it returned, the requests are those of a plain
\* GET but for the Prefer header, every callback follows its request and
\* gets that response's bytes, nothing sleeps, and the call returns right
\* after the first callback that returned an empty link.
C16_TrackingIsIterationPlusPrefer ==
    NoDeltaSoFar =>
        /\ Indices("sleep") = {}
        /\ \A j \in Indices("req") :
               /\ j > 1 => ((j - 1) \in Returned /\ trace[j - 1].next # "")
               /\ trace[j].req =
                      PlainOrPreferRequest(IF j = 1 THEN path ELSE trace[j - 1].next)
        /\ \A i \in Indices("cb") :
               /\ i > 1
               /\ trace[i - 1].type = "req"
               /\ trace[i].bytes.seq = Cardinality({j \in Indices("req") : j < i})
        /\ \A i \in Returned :
               trace[i].next = "" =>
                   (i = Len(trace) /\ pc \in {"decide", "loop", "returned"})
        /\ (pc = "returned" /\ trace # <<>>) =>
               (Len(trace) \in Returned /\ trace[Len(trace)].next = "")

\* A tracking run without any delta link has followed two next links and
\* returned.
C16_Witness ==
    /\ Tracking
    /\ NoDeltaSoFar
    /\ NumCallbacks = 3
    /\ pc = "returned"

\* C20: with an empty path the call issues no request, invokes no callback,
\* does not sleep and can only return; with a non-empty path the first thing
\* it does is the request to serviceRootURL + path.
C20_EmptyPathDoesNothing ==
    /\ path = "" =>
           /\ trace = <<>>
           /\ openBodies = {}
           /\ resp = NoResp
           /\ pc \in {"loop", "returned"}
    /\ path # "" =>
           /\ trace = <<>> => pc = "loop"
           /\ trace # <<>> => IsRequestTo(trace[1], path)

\* A call with an empty path has returned.
C20_Witness ==
    /\ path = ""
    /\ pc = "returned"
    /\ trace = <<>>

----------------------------------------------------------------------------
\* The request helpers and ValidateStatusCode, each called on its own

\* Texts are sequences of characters, so that a read can stop inside one.
NotFoundText == <<"N", "o", "t", " ", "F", "o", "u", "n", "d">>
CreatedText == <<"{", "}">>

\* The arguments the helpers are called with.
URLs == {"http://tm1:8088/api/v1/Cubes", "http://tm1:8088/api/v1/Dimensions"}
ContentTypes == {"application/json", "text/plain"}
PostBodies == {"{}", "{\"Name\":\"c\"}"}
PreReqs ==
    {<<>>,
     TrackPreReq,
     <<<<"Set", "Accept", "*/*">>>>,
     <<<<"Del", "OData-Version">>>>,
     <<<<"Add", "Prefer", "return=minimal">>, <<"Set", "Content-Type", "text/csv">>>>}
ExpectedStatuses == {200, 201}
Descriptions == {"Server responded with an unexpected result while asking for its version number.",
                 "Could not create the cube."}
TextBodies == {<<>>, NotFoundText, CreatedText}

\* resp.Status, the status line's text that belongs to resp.StatusCode.
StatusLine(code) ==
    CASE code = 200 -> "200 OK"
      [] code = 201 -> "201 Created"
      [] code = 404 -> "404 Not Found"

\* http.NewRequest with a body reader.
NewRequestWithBody(method, url, content) ==
    [method |-> method, url |-> url, header |-> <<>>, body |-> content]

\* The request ExecutePOSTRequest sends.
POSTRequest(url, contentType, content) ==
    HeaderAdd(HeaderAdd(HeaderAdd(NewRequestWithBody("POST", url, content),
                                  "Content-Type", contentType),
                        "OData-Version", "4.0"),
              "Accept", "application/json")

\* A variant that calls the hook on the bare request, before the headers are set.
POSTRequestExHookFirst(url, contentType, content, preReq) ==
    HeaderAdd(HeaderAdd(HeaderAdd(RunPreReq(NewRequestWithBody("POST", url, content), preReq),
                                  "Content-Type", contentType),
                        "OData-Version", "4.0"),
              "Accept", "application/json")

\* The request ExecutePOSTRequestEx sends.
POSTRequestEx(url, contentType, content, preReq) ==
    RunPreReq(POSTRequest(url, contentType, content), preReq)

\* The hook was called with this request.
HookEvent(req) == [type |-> "hook", req |-> req]
\* ValidateStatusCode read these bytes / called logFmt.
ReadEvent(bytes) == [type |-> "read", bytes |-> bytes]
DescEvent(text) == [type |-> "desc", text |-> text]

\* ioutil.ReadAll on a text: all of it, or a part of it with an error.
ReadAllText(t) ==
    {<<t, FALSE>>, <<t, TRUE>>} \cup {<<SubSeq(t, 1, n), TRUE>> : n \in 0..(Len(t) - 1)}

\* logFmt() + "\r\nServer responded with: " + resp.Status + "\r\n" + string(body),
\* kept as the sequence of the parts that are concatenated.
StatusMessage(description, r, bytes) ==
    <<description, "\r\nServer responded with: ", StatusLine(r.status), "\r\n", bytes>>

\* resp, err := client.Do(req); if err != nil { log.Fatal(err) }; return resp
\* `before` is what the helper did before the request went out.
ClientDo(before, req) ==
    LET seq == NumRequests + 1
    IN  \/ /\ trace' = trace \o before \o <<ReqEvent(req), FatalEvent("transport")>>
           /\ pc' = "fatal"
           /\ UNCHANGED <<resp, openBodies>>
        \/ \E r \in ServerResponses(seq) :
             /\ resp' = r
             /\ openBodies' = openBodies \cup {seq}
             /\ trace' = trace \o before \o <<ReqEvent(req)>>
             /\ pc' = "returned"

ExecuteGETRequest ==
    /\ fn = "ExecuteGETRequest"
    /\ pc = "call"
    /\ ClientDo(<<>>, GETRequest(args.urlStr))
    /\ UNCHANGED <<fn, serviceRootURL, path, interval, urlStr, nextLink, deltaLink,
                   body, readErr, callVars, logVars>>

\* The hook is called between the headers and the request going out.
ExecuteGETRequestEx ==
    /\ fn = "ExecuteGETRequestEx"
    /\ pc = "call"
    /\ ClientDo(<<HookEvent(GETRequest(args.urlStr))>>,
                GETRequestEx(args.urlStr, args.preReq))
    /\ UNCHANGED <<fn, serviceRootURL, path, interval, urlStr, nextLink, deltaLink,
                   body, readErr, callVars, logVars>>

ExecutePOSTRequest ==
    /\ fn = "ExecutePOSTRequest"
    /\ pc = "call"
    /\ ClientDo(<<>>, POSTRequest(args.urlStr, args.contentType, args.body))
    /\ UNCHANGED <<fn, serviceRootURL, path, interval, urlStr, nextLink, deltaLink,
                   body, readErr, callVars, logVars>>

ExecutePOSTRequestEx ==
    /\ fn = "ExecutePOSTRequestEx"
    /\ pc = "call"
    /\ ClientDo(<<HookEvent(POSTRequest(args.urlStr, args.contentType, args.body))>>,
                POSTRequestEx(args.urlStr, args.contentType, args.body, args.preReq))
    /\ UNCHANGED <<fn, serviceRootURL, path, interval, urlStr, nextLink, deltaLink,
                   body, readErr, callVars, logVars>>

\* A variant that reads the body before it looks at the status.
ValidateStatusCodeReadsFirst(statusCode, logFmt, after) ==
    \E r \in ReadAllText(resp.body) :
        /\ body' = r[1]
        /\ readErr' = r[2]
        /\ IF resp.status # statusCode
           THEN /\ trace' = trace \o <<ReadEvent(r[1]), DescEvent(logFmt),
                                       FatalEvent(StatusMessage(logFmt, resp, r[1]))>>
                /\ pc' = "fatal"
           ELSE /\ trace' = Append(trace, ReadEvent(r[1]))
                /\ pc' = after
        /\ UNCHANGED openBodies

\* ValidateStatusCode(resp, statusCode, logFmt) on the response in `resp`.
\* On a mismatch the Close is deferred, the body is read (the read's error is
\* dropped), logFmt is called and log.Fatal ends the process: os.Exit runs no
\* deferred call, so the Close never happens.  On a match nothing is done and
\* the caller goes on at `after`.
ValidateStatusCode(statusCode, logFmt, after) ==
    IF resp.status # statusCode
    THEN \E r \in ReadAllText(resp.body) :
            /\ body' = r[1]
            /\ readErr' = r[2]
            /\ trace' = trace \o <<ReadEvent(r[1]), DescEvent(logFmt),
                                   FatalEvent(StatusMessage(logFmt, resp, r[1]))>>
            /\ pc' = "fatal"
            /\ UNCHANGED openBodies
    ELSE /\ pc' = after
         /\ UNCHANGED <<body, readErr, trace, openBodies>>

ValidateStatusCodeCall ==
    /\ fn = "ValidateStatusCode"
    /\ pc = "call"
    /\ ValidateStatusCode(args.statusCode, args.logFmt, "returned")
    /\ UNCHANGED <<fn, serviceRootURL, path, interval, urlStr, nextLink, deltaLink,
                   resp, callVars, logVars>>

ExecInit ==
    /\ fn \in {"ExecuteGETRequest", "ExecuteGETRequestEx", "ExecutePOSTRequest",
               "ExecutePOSTRequestEx", "ValidateStatusCode"}
    /\ args \in
         CASE fn = "ExecuteGETRequest" ->
                {[NoArgs EXCEPT !.urlStr = u] : u \in URLs}
           [] fn = "ExecuteGETRequestEx" ->
                {[NoArgs EXCEPT !.urlStr = u, !.preReq = h] : u \in URLs, h \in PreReqs}
           [] fn = "ExecutePOSTRequest" ->
                {[NoArgs EXCEPT !.urlStr = u, !.contentType = c, !.body = b] :
                    u \in URLs, c \in ContentTypes, b \in PostBodies}
           [] fn = "ExecutePOSTRequestEx" ->
                {[NoArgs EXCEPT !.urlStr = u, !.contentType = c, !.body = b, !.preReq = h] :
                    u \in URLs, c \in ContentTypes, b \in PostBodies, h \in PreReqs}
           [] fn = "ValidateStatusCode" ->
                {[NoArgs EXCEPT !.statusCode = c, !.logFmt = d] :
                    c \in ExpectedStatuses, d \in Descriptions}
    /\ resp \in IF fn = "ValidateStatusCode"
                THEN {[status |-> c, body |-> t] :
                         c \in Statuses \cup ExpectedStatuses, t \in TextBodies}
                ELSE {NoResp}
    /\ openBodies = IF fn = "ValidateStatusCode" THEN {1} ELSE {}
    /\ serviceRootURL \in ServiceRootURLs
    /\ path = ""
    /\ interval = 0
    /\ pc = "call"
    /\ urlStr = ""
    /\ nextLink = ""
    /\ deltaLink = ""
    /\ body = NoBody
    /\ readErr = FALSE
    /\ trace = <<>>
    /\ env = NoEnv
    /\ threadMap = NoThreads
    /\ queryCount = 0
    /\ output = <<>>
    /\ processed = <<>>

ExecNext ==
    \/ ExecuteGETRequest
    \/ ExecuteGETRequestEx
    \/ ExecutePOSTRequest
    \/ ExecutePOSTRequestEx
    \/ ValidateStatusCodeCall

ExecSpec == ExecInit /\ [][ExecNext]_vars

----------------------------------------------------------------------------
\* Claims about the helpers

\* The request the helper has built before the hook sees it.
BuiltRequest ==
    IF fn \in {"ExecuteGETRequest", "ExecuteGETRequestEx"}
    THEN GETRequest(args.urlStr)
    ELSE POSTRequest(args.urlStr, args.contentType, args.body)

\* C18: in ExecuteGETRequestEx and ExecutePOSTRequestEx the hook is called
\* exactly once, with the request that already carries OData-Version and
\* Accept (and Content-Type), and the request that is sent right after it is
\* what the hook's additions, changes and removals left of that request.
C18_HookRunsOnceBetweenHeadersAndSend ==
    (fn \in {"ExecuteGETRequestEx", "ExecutePOSTRequestEx"} /\ pc # "call") =>
        /\ Indices("hook") = {1}
        /\ Indices("req") = {2}
        /\ trace[1].req = BuiltRequest
        /\ trace[2].req = RunPreReq(trace[1].req, args.preReq)

C18_Witness ==
    /\ fn = "ExecutePOSTRequestEx"
    /\ pc = "returned"
    /\ args.preReq = <<<<"Add", "Prefer", "return=minimal">>, <<"Set", "Content-Type", "text/csv">>>>
    /\ args.contentType = "text/plain"
    /\ HeaderHas(trace[2].req, "Content-Type", "text/csv")
    /\ ~HeaderHas(trace[2].req, "Content-Type", "text/plain")
    /\ HeaderHas(trace[1].req, "Content-Type", "text/plain")

\* C14: ValidateStatusCode ends the process exactly when the status differs
\* from the expected one; when they are equal nothing was read, the
\* description was not asked for, and the body is still open.
C14_MatchingStatusHasNoEffect ==
    (fn = "ValidateStatusCode" /\ pc # "call") =>
        /\ pc = "fatal" <=> resp.status # args.statusCode
        /\ resp.status = args.statusCode =>
              /\ pc = "returned"
              /\ trace = <<>>
              /\ body = NoBody
              /\ readErr = FALSE
              /\ openBodies = {1}

C14_Witness ==
    /\ fn = "ValidateStatusCode"
    /\ pc = "returned"
    /\ resp.status = 201
    /\ args.statusCode = 201
    /\ resp.body = CreatedText
    /\ openBodies = {1}

\* C13: when the status differs from the expected one, ValidateStatusCode has
\* read the body and closed it by the time the process ends, and the fatal
\* message is the description, the status line and the body text that was read.
C13_MismatchDrainsClosesAndReports ==
    (fn = "ValidateStatusCode" /\ pc = "fatal") =>
        /\ Len(trace) = 3
        /\ trace[1] = ReadEvent(body)
        /\ trace[2] = DescEvent(args.logFmt)
        /\ trace[3] = FatalEvent(<<args.logFmt, "\r\nServer responded with: ",
                                   StatusLine(resp.status), "\r\n", body>>)
        /\ openBodies = {}

\* The part of C13 the code does keep: the body is read and the message is built from
\* the description, the status line and the bytes read; the body is left open.
C13_MismatchReportsBodyLeftOpen ==
    (fn = "ValidateStatusCode" /\ pc = "fatal") =>
        /\ Len(trace) = 3
        /\ trace[1] = ReadEvent(body)
        /\ trace[2] = DescEvent(args.logFmt)
        /\ trace[3] = FatalEvent(<<args.logFmt, "\r\nServer responded with: ",
                                   StatusLine(resp.status), "\r\n", body>>)
        /\ openBodies = {1}

----------------------------------------------------------------------------
\* Characters, and 64-bit integers as four 16-bit limbs (least significant
\* first, two's complement)

Digits == <<"0", "1", "2", "3", "4", "5", "6", "7", "8", "9">>
IsDigit(c) == \E d \in 1..10 : Digits[d] = c
DigitValue(c) == (CHOOSE d \in 1..10 : Digits[d] = c) - 1

\* The byte of a character of a version text.
CharCode(c) ==
    CASE c = "." -> 46
      [] IsDigit(c) -> 48 + DigitValue(c)

LimbBase == 65536
SignLimb == 32768

\* x * m + a on as many limbs as x has; what does not fit is cut off.
MulAdd(x, m, a) ==
    LET limbs == x
        sum[i \in 0..Len(limbs)] ==
            IF i = 0 THEN a * LimbBase ELSE limbs[i] * m + sum[i - 1] \div LimbBase
    IN  [i \in 1..Len(limbs) |-> sum[i] % LimbBase]

Limbs(n, count) == [i \in 1..count |-> IF i = 1 THEN n ELSE 0]
IsZero(x) == \A i \in DOMAIN x : x[i] = 0

MaxInt64 == <<65535, 65535, 65535, 32767>>
MinInt64Magnitude == <<0, 0, 0, 32768>>

\* strconv.ParseUint(digits, 10, 64): the value on five limbs, or that it
\* does not fit 64 bits.
ParseUint(digits) ==
    LET acc[i \in 0..Len(digits)] ==
            IF i = 0 THEN [v |-> Limbs(0, 5), over |-> FALSE]
            ELSE LET before == acc[i - 1]
                     n == MulAdd(before.v, 10, DigitValue(digits[i]))
                 IN  IF before.over THEN before
                     ELSE [v |-> n, over |-> n[5] # 0]
    IN  acc[Len(digits)]

\* strconv.Atoi on a 64-bit build: 0 with a syntax error, the nearest of
\* MinInt64 and MaxInt64 with a range error, or the value.
Atoi(s) ==
    LET signed == s # <<>> /\ s[1] \in {"+", "-"}
        neg == s # <<>> /\ s[1] = "-"
        digits == IF signed THEN Tail(s) ELSE s
    IN  IF digits = <<>> \/ \E i \in DOMAIN digits : ~IsDigit(digits[i])
        THEN [neg |-> FALSE, mag |-> Limbs(0, 4), err |-> "syntax"]
        ELSE LET un == ParseUint(digits)
                 big == un.over \/ un.v[4] >= SignLimb
             IN  IF ~neg /\ big
                 THEN [neg |-> FALSE, mag |-> MaxInt64, err |-> "range"]
                 ELSE IF neg /\ (un.over \/ (big /\ SubSeq(un.v, 1, 4) # MinInt64Magnitude))
                 THEN [neg |-> TRUE, mag |-> MinInt64Magnitude, err |-> "range"]
                 ELSE [neg |-> neg, mag |-> SubSeq(un.v, 1, 4), err |-> ""]

DefaultInterval == 5

\* interval, _ = strconv.Atoi(...); if interval < 1 { interval = 5 }
IntervalFromEnv(s) ==
    LET n == Atoi(s)
    IN  IF n.neg \/ IsZero(n.mag) THEN Limbs(DefaultInterval, 4) ELSE n.mag

\* time.Duration(interval) * time.Second, in nanoseconds: the product modulo 2^64.
Seconds(n) == MulAdd(MulAdd(MulAdd(n, 1000, 0), 1000, 0), 1000, 0)

----------------------------------------------------------------------------
\* main

\* What .env can hold for TM1_TRACKER_INTERVAL (<<>>: not set) and
\* TM1_AUTHENTICATION.
EnvIntervals ==
    {<<>>,
     <<"3">>,
     <<"0">>,
     <<"-", "2">>,
     <<"a", "b", "c">>,
     <<"1", "0", "0", "0", "0", "0", "0", "0", "0", "0", "0">>,
     <<"9", "9", "9", "9", "9", "9", "9", "9", "9", "9",
       "9", "9", "9", "9", "9", "9", "9", "9", "9", "9">>}
EnvAuthentications == {"", "TM1", "CAM"}

\* base64 of "admin:apple" and of "admin:apple:LDAP".
BasicCredentials == "YWRtaW46YXBwbGU="
CAMCredentials == "YWRtaW46YXBwbGU6TERBUA=="

\* The version texts the server answers with.
VersionMinimum == <<"1", "0", ".", "2", ".", "2", "0", "5", "0", "0", ".", "3">>
VersionOlder == <<"1", "0", ".", "2", ".", "2", "0", "0", "0", "0", ".", "1">>
VersionNewer == <<"1", "1", ".", "8", ".", "0", "1", "3", "0", "0", ".", "1">>
VersionNine == <<"9", ".", "5", ".", "2", "0", "0", "0", "0", ".", "1">>
VersionShort == <<"1", "2", ".", "3", ".", "5">>
VersionTexts == {VersionMinimum, VersionOlder, VersionNewer, VersionNine, VersionShort}

\* "10.2.20500"
MinimalVersion == <<"1", "0", ".", "2", ".", "2", "0", "5", "0", "0">>
MinimalVersionLen == 10

VersionResponses == [status : Statuses, body : VersionTexts]

\* Go's < on strings: byte by byte, a proper prefix is smaller.
StringLess(a, b) ==
    \E i \in 1..(Len(b)) :
        /\ \A j \in 1..(i - 1) : j <= Len(a) /\ CharCode(a[j]) = CharCode(b[j])
        /\ i - 1 <= Len(a)
        /\ (i > Len(a) \/ CharCode(a[i]) < CharCode(b[i]))

\* The request main builds for the version: credentials by the
\* authentication mode, then Accept: */*.
VersionRequest(authentication) ==
    LET req == NewRequest("GET", serviceRootURL \o "Configuration/ProductVersion/$value")
        withAuth == IF authentication = "CAM"
                    THEN HeaderAdd(req, "Authorization", "CAMNamespace " \o CAMCredentials)
                    ELSE HeaderSet(req, "Authorization", "Basic " \o BasicCredentials)
    IN  HeaderAdd(withAuth, "Accept", "*/*")

\* main read the version: what the server sent and the bytes that arrived.
VersionEvent(text, bytes) == [type |-> "version", text |-> text, bytes |-> bytes]

VersionDescription == "Server responded with an unexpected result while asking for its version number."
VersionMessage(bytes) ==
    <<"The TM1 Server version of your server is:", bytes,
      "\n Minimal required version to use a tracker is 10.2.2 FP5!">>

MainInit ==
    /\ fn = "main"
    /\ env \in [loaded : BOOLEAN, interval : EnvIntervals, authentication : EnvAuthentications]
    /\ serviceRootURL \in ServiceRootURLs
    /\ path = ""
    /\ interval = Limbs(0, 4)
    /\ pc = "main"
    /\ urlStr = ""
    /\ nextLink = ""
    /\ deltaLink = ""
    /\ resp = NoResp
    /\ body = NoBody
    /\ readErr = FALSE
    /\ openBodies = {}
    /\ trace = <<>>
    /\ args = NoArgs
    /\ threadMap = NoThreads
    /\ queryCount = 0
    /\ output = <<>>
    /\ processed = <<>>

\* godotenv.Load, the root URL and the interval.
MainLoadEnv ==
    /\ fn = "main"
    /\ pc = "main"
    /\ IF env.loaded
       THEN /\ interval' = IntervalFromEnv(env.interval)
            /\ pc' = "version"
            /\ UNCHANGED trace
       ELSE /\ trace' = Append(trace, FatalEvent("Error loading .env file"))
            /\ pc' = "fatal"
            /\ UNCHANGED interval
    /\ UNCHANGED <<fn, serviceRootURL, path, urlStr, nextLink, deltaLink, resp, body,
                   readErr, openBodies, callVars, logVars>>

\* The version request: client.Do(req), log.Fatal on a transport error.
MainVersionRequest ==
    /\ fn = "main"
    /\ pc = "version"
    /\ LET req == VersionRequest(env.authentication)
       IN  \/ /\ trace' = trace \o <<ReqEvent(req), FatalEvent("transport")>>
              /\ pc' = "fatal"
              /\ UNCHANGED <<resp, openBodies>>
           \/ \E r \in VersionResponses :
                /\ resp' = r
                /\ openBodies' = openBodies \cup {1}
                /\ trace' = Append(trace, ReqEvent(req))
                /\ pc' = "validate"
    /\ UNCHANGED <<fn, serviceRootURL, path, interval, urlStr, nextLink, deltaLink,
                   body, readErr, callVars, logVars>>

\* odata.ValidateStatusCode(resp, 200, ...)
MainValidate ==
    /\ fn = "main"
    /\ pc = "validate"
    /\ ValidateStatusCode(200, VersionDescription, "check")
    /\ UNCHANGED <<fn, serviceRootURL, path, interval, urlStr, nextLink, deltaLink,
                   resp, callVars, logVars>>

\* string(version)[0:10] < "10.2.20500"
VersionTooOld(bytes) == StringLess(SubSeq(bytes, 1, MinimalVersionLen), MinimalVersion)

\* version, _ := ioutil.ReadAll(resp.Body); resp.Body.Close(); the check of
\* the first ten bytes (a panic when there are fewer), and the call of
\* TrackCollection with the interval as a Duration.
MainCheckVersion ==
    /\ fn = "main"
    /\ pc = "check"
    /\ \E r \in ReadAllText(resp.body) :
         LET version == r[1]
             read == VersionEvent(resp.body, version)
         IN  IF Len(version) < MinimalVersionLen
             THEN /\ trace' = trace \o <<read, FatalEvent("panic: slice bounds out of range")>>
                  /\ pc' = "panic"
                  /\ body' = version
                  /\ readErr' = r[2]
                  /\ UNCHANGED <<fn, path, interval, urlStr, resp>>
             ELSE IF VersionTooOld(version)
             THEN /\ trace' = trace \o <<read, FatalEvent(VersionMessage(version))>>
                  /\ pc' = "fatal"
                  /\ body' = version
                  /\ readErr' = r[2]
                  /\ UNCHANGED <<fn, path, interval, urlStr, resp>>
             ELSE /\ trace' = Append(trace, read)
                  /\ fn' = "TrackCollection"
                  /\ path' = "MessageLogEntries"
                  /\ urlStr' = "MessageLogEntries"
                  /\ interval' = Seconds(interval)
                  /\ pc' = "loop"
                  /\ resp' = NoResp
                  /\ body' = NoBody
                  /\ readErr' = FALSE
    /\ openBodies' = openBodies \ {1}
    /\ UNCHANGED <<serviceRootURL, nextLink, deltaLink, callVars, logVars>>

MainNext ==
    \/ MainLoadEnv
    \/ MainVersionRequest
    \/ MainValidate
    \/ MainCheckVersion
    \/ TrackLoop
    \/ TrackRead
    \/ TrackProcess
    \/ TrackDecide
    \/ TrackWake

MainSpec == MainInit /\ [][MainNext]_vars

\* main and the helpers called on their own, in one specification.
ProgramInit == MainInit \/ ExecInit
ProgramNext == MainNext \/ ExecNext
ProgramSpec == ProgramInit /\ [][ProgramNext]_vars

----------------------------------------------------------------------------
\* Claims about main

HeaderKeys(req) == {req.header[i][1] : i \in DOMAIN req.header}

\* C12 as stated: every request that goes out carries OData-Version: 4.0 and
\* Accept: application/json, and every POST request the supplied Content-Type.
C12_EveryRequestHasODataHeaders ==
    \A i \in Indices("req") :
        LET r == trace[i].req
        IN  /\ HeaderHas(r, "OData-Version", "4.0")
            /\ HeaderHas(r, "Accept", "application/json")
            /\ r.method = "POST" => HeaderHas(r, "Content-Type", args.contentType)

\* main's own request is the first event of its history.
IsVersionRequest(i) == env.loaded /\ i = 1

\* C12, amended: every request a helper builds carries OData-Version: 4.0 and
\* Accept: application/json, and a POST request the supplied Content-Type,
\* when it is sent or, in the Ex helpers, handed to the hook; every collection
\* request of the program carries them on the wire.  The version request that
\* main builds itself carries Accept: */* and an Authorization header, and no
\* OData-Version header.
C12_HelperRequestsHaveODataHeaders ==
    \A i \in Indices("req") :
        LET r == trace[i].req
            built == IF i > 1 /\ trace[i - 1].type = "hook" THEN trace[i - 1].req ELSE r
        IN  IF IsVersionRequest(i)
            THEN /\ r.header[Len(r.header)] = <<"Accept", "*/*">>
                 /\ HeaderKeys(r) = {"Authorization", "Accept"}
                 /\ Len(r.header) = 2
            ELSE /\ HeaderHas(built, "OData-Version", "4.0")
                 /\ HeaderHas(built, "Accept", "application/json")
                 /\ built.method = "POST" =>
                        HeaderHas(built, "Content-Type", args.contentType)
                 /\ env.loaded => built = r

C12_Witness ==
    /\ env.loaded
    /\ env.authentication = "CAM"
    /\ Cardinality(Indices("req")) = 3
    /\ HeaderHas(trace[1].req, "Authorization", "CAMNamespace YWRtaW46YXBwbGU6TERBUA==")
    /\ \E i \in Indices("req") : i > 1 /\ HasPrefer(trace[i])

\* The number a decimal text stands for, on seven limbs.
DecimalValue(digits) ==
    LET acc[i \in 0..Len(digits)] ==
            IF i = 0 THEN Limbs(0, 7)
            ELSE LET before == acc[i - 1]
                 IN  MulAdd(before, 10, DigitValue(digits[i]))
    IN  acc[Len(digits)]

IsDecimal(s) == s # <<>> /\ \A i \in DOMAIN s : IsDigit(s[i])

\* The text is an integer N with 1 <= N <= MaxInt64.
ValidInterval(s) ==
    /\ IsDecimal(s)
    /\ LET n == DecimalValue(s)
       IN  /\ ~IsZero(n)
           /\ n[5] = 0 /\ n[6] = 0 /\ n[7] = 0
           /\ n[4] < SignLimb

\* The seconds the tracker is to sleep for by the text of TM1_TRACKER_INTERVAL.
IntendedSeconds(s) == IF ValidInterval(s) THEN DecimalValue(s) ELSE Limbs(DefaultInterval, 7)

\* The nanoseconds of the intended sleep, by the text of the variable.
IntendedDurations == [s \in EnvIntervals |-> Seconds(IntendedSeconds(s))]

\* The duration d (64 bits, nanoseconds) is the intended one for the text s.
IsIntended(d, s) ==
    /\ d[4] < SignLimb
    /\ [i \in 1..7 |-> IF i <= 4 THEN d[i] ELSE 0] = IntendedDurations[s]

\* C15: every sleep of the tracker lasts N seconds when TM1_TRACKER_INTERVAL
\* is a valid integer N >= 1 and 5 seconds when it is absent or invalid
\* (non-numeric, zero, negative, out of range), and the interval is the same
\* for the whole run.
C15_SleepsTheConfiguredSeconds ==
    env.loaded =>
        \A i \in Indices("sleep") :
               /\ IsIntended(trace[i].d, env.interval)
               /\ trace[i].d = interval

\* The texts whose intended sleep is a Duration (up to 9223372036 seconds)
\* and that Atoi reads without a range error.
InRangeIntervals ==
    {s \in EnvIntervals :
        /\ IntendedDurations[s][5] = 0
        /\ IntendedDurations[s][6] = 0
        /\ IntendedDurations[s][7] = 0
        /\ IntendedDurations[s][4] < SignLimb
        /\ Atoi(s).err # "range"}

\* What holds of C15: for these texts (a small N, and the absent and the
\* invalid ones that Atoi answers with a syntax error, zero or a negative
\* number) every sleep lasts the intended seconds.
C15_SleepsTheConfiguredSecondsInRange ==
    (env.loaded /\ env.interval \in InRangeIntervals) =>
        \A i \in Indices("sleep") :
               /\ IsIntended(trace[i].d, env.interval)
               /\ trace[i].d = interval

\* The numbers between the dots of a version text.
Components(text) ==
    LET acc[i \in 0..Len(text)] ==
            IF i = 0 THEN <<0>>
            ELSE LET before == acc[i - 1]
                 IN  IF text[i] = "."
                     THEN Append(before, 0)
                     ELSE [before EXCEPT ![Len(before)] = @ * 10 + DigitValue(text[i])]
    IN  acc[Len(text)]

ComponentAt(a, i) == IF i <= Len(a) THEN a[i] ELSE 0

\* Version a is lower than version b, number by number.
VersionLower(a, b) ==
    \E i \in 1..(Len(a) + Len(b)) :
        /\ \A j \in 1..(i - 1) : ComponentAt(a, j) = ComponentAt(b, j)
        /\ ComponentAt(a, i) < ComponentAt(b, i)

\* 10.2.20500
MinimalVersionNumbers == <<10, 2, 20500>>
AtLeastMinimal(text) == ~VersionLower(Components(text), MinimalVersionNumbers)

\* C19, the half "tracking starts if the version is at least 10.2.20500":
\* once main has read the whole of a version text that is at least
\* 10.2.20500, the program goes on to the collection requests; it does not
\* end at the version check.
C19_TracksFromMinimalVersion ==
    \A i \in Indices("version") :
        (trace[i].bytes = trace[i].text /\ AtLeastMinimal(trace[i].text)) =>
            /\ fn = "TrackCollection"
            /\ ~(i < Len(trace) /\ trace[i + 1].type = "fatal")

----------------------------------------------------------------------------
\* Times: an instant is its date and time of day in UTC

ZeroTime == [y |-> 1, mo |-> 1, d |-> 1, h |-> 0, mi |-> 0, s |-> 0]

\* The number a run of digits stands for (at most four of them here).
Number(text, from, to) ==
    LET acc[i \in (from - 1)..to] ==
            IF i = from - 1 THEN 0 ELSE acc[i - 1] * 10 + DigitValue(text[i])
    IN  acc[to]

IsLeap(y) == (y % 4 = 0 /\ y % 100 # 0) \/ y % 400 = 0
DaysIn(y, mo) ==
    IF mo = 2 THEN (IF IsLeap(y) THEN 29 ELSE 28)
    ELSE IF mo \in {4, 6, 9, 11} THEN 30 ELSE 31

\* time.Parse(time.RFC3339Nano, text) for the texts of the model, which are
\* either of the form YYYY-MM-DDTHH:MM:SSZ or no time stamp at all: the
\* instant, or the zero Time and an error.
ParseTime(text) ==
    LET shaped ==
            /\ Len(text) = 20
            /\ \A i \in {1, 2, 3, 4, 6, 7, 9, 10, 12, 13, 15, 16, 18, 19} : IsDigit(text[i])
            /\ text[5] = "-" /\ text[8] = "-" /\ text[11] = "T"
            /\ text[14] = ":" /\ text[17] = ":" /\ text[20] = "Z"
        t == [y |-> Number(text, 1, 4), mo |-> Number(text, 6, 7), d |-> Number(text, 9, 10),
              h |-> Number(text, 12, 13), mi |-> Number(text, 15, 16),
              s |-> Number(text, 18, 19)]
    IN  IF shaped /\ t.mo \in 1..12 /\ t.d \in 1..DaysIn(t.y, t.mo)
           /\ t.h < 24 /\ t.mi < 60 /\ t.s < 60
        THEN [time |-> t, err |-> FALSE]
        ELSE [time |-> ZeroTime, err |-> TRUE]

\* n in decimal, at least `width` digits wide (n < 10^10).
Padded(n, width) ==
    LET all == [i \in 1..10 |-> Digits[((n \div (10 ^ (10 - i))) % 10) + 1]]
        lead == CHOOSE k \in 1..10 :
                    /\ k = 10 \/ all[k] # "0"
                    /\ \A j \in 1..(k - 1) : all[j] = "0"
        first == IF lead < 11 - width THEN lead ELSE 11 - width
    IN  SubSeq(all, first, 10)

\* t.Format(time.RFC3339Nano) of an instant in UTC with whole seconds.
FormatTime(t) ==
    Padded(t.y, 4) \o <<"-">> \o Padded(t.mo, 2) \o <<"-">> \o Padded(t.d, 2) \o <<"T">>
    \o Padded(t.h, 2) \o <<":">> \o Padded(t.mi, 2) \o <<":">> \o Padded(t.s, 2) \o <<"Z">>

\* Days from 1970-01-01 to the date.
DaysFromCivil(t) ==
    LET y == IF t.mo <= 2 THEN t.y - 1 ELSE t.y
        era == y \div 400
        yoe == y - era * 400
        mp == IF t.mo > 2 THEN t.mo - 3 ELSE t.mo + 9
        doy == (153 * mp + 2) \div 5 + t.d - 1
        doe == yoe * 365 + yoe \div 4 - yoe \div 100 + doy
    IN  era * 146097 + doe - 719468

SecondOfDay(t) == t.h * 3600 + t.mi * 60 + t.s

\* The longest Duration has 106751 whole days (2^63 - 1 ns).
MaxDurationDays == 106751
SecondsPerDay == 86400

\* a.Sub(b): the seconds between the instants, or the longest or the
\* shortest Duration when the difference is none (sat = 1, -1).
Sub(a, b) ==
    LET days == DaysFromCivil(a) - DaysFromCivil(b)
    IN  IF days > MaxDurationDays THEN [sat |-> 1, seconds |-> 0]
        ELSE IF days < -MaxDurationDays THEN [sat |-> -1, seconds |-> 0]
        ELSE [sat |-> 0, seconds |-> days * SecondsPerDay + SecondOfDay(a) - SecondOfDay(b)]

\* fmt's %0.3f of Duration.Seconds().
SecondsText(dur) ==
    IF dur.sat = 1
    THEN <<"9", "2", "2", "3", "3", "7", "2", "0", "3", "6", ".", "8", "5", "5">>
    ELSE IF dur.sat = -1
    THEN <<"-", "9", "2", "2", "3", "3", "7", "2", "0", "3", "6", ".", "8", "5", "5">>
    ELSE (IF dur.seconds < 0 THEN <<"-">> ELSE <<>>)
         \o Padded(IF dur.seconds < 0 THEN -dur.seconds ELSE dur.seconds, 1)
         \o <<".", "0", "0", "0">>

----------------------------------------------------------------------------
\* processMessageLogEntries: the entries of one response after the other

MaxEntries == 3

\* The time stamps an entry can carry: two instants five seconds apart
\* across the end of a month, and a text that is no RFC 3339 time stamp.
StampStart == <<"2", "0", "1", "7", "-", "0", "2", "-", "2", "8", "T",
                "2", "3", ":", "5", "9", ":", "5", "8", "Z">>
StampEnd == <<"2", "0", "1", "7", "-", "0", "3", "-", "0", "1", "T",
              "0", "0", ":", "0", "0", ":", "0", "3", "Z">>
StampImproper == <<"2", "0", "1", "7", "-", "0", "3", "-", "0", "1", " ",
                   "0", "0", ":", "0", "0", ":", "0", "3">>
TimeStamps == {StampStart, StampEnd, StampImproper}
ThreadIDs == {1, 2}

\* The entries a response can hold: those of the TM1.MdxViewCreate logger,
\* and one of another logger.
MessageLogEntries ==
    [Logger : {"TM1.MdxViewCreate"}, ThreadID : ThreadIDs,
     Message : {"View is created.", "Executing SELECT"}, TimeStamp : TimeStamps]
    \cup {[Logger |-> "TM1.Server", ThreadID |-> 1, Message |-> "View is created.",
           TimeStamp |-> StampStart]}

\* time.Parse of each time stamp, and for each pair of instants the texts
\* of the QUERY line: start, end and duration.
ParsedStamps == [text \in TimeStamps |-> ParseTime(text)]
Instants == {ParsedStamps[text].time : text \in TimeStamps}
QueryTimes ==
    [tsStart \in Instants, tsEntry \in Instants |->
        <<FormatTime(tsStart), FormatTime(tsEntry), SecondsText(Sub(tsEntry, tsStart))>>]

\* The lines printed.
\* "QUERY,%d,%s,%s,%0.3f" of queryCount, tsStart.Format(...), tsEntry.Format(...),
\* tsEntry.Sub(tsStart).Seconds()
QueryLine(count, tsStart, tsEntry) ==
    <<"QUERY", Padded(count, 1)>> \o QueryTimes[tsStart, tsEntry]
ErrorLine(count, what) == <<"ERROR", Padded(count, 1), what, "ERROR", "0.000">>

\* A completion that prints its QUERY line and keeps the thread's record.
ProcessEntryKeepsRecord(st, entry) ==
    IF entry.Logger # "TM1.MdxViewCreate" THEN st
    ELSE LET rec == entry.ThreadID \in DOMAIN st.threadMap
             tsEntry == ParsedStamps[entry.TimeStamp].time
         IN  IF entry.Message = "View is created."
             THEN IF rec
                  THEN [st EXCEPT !.queryCount = @ + 1,
                                  !.output = Append(@, QueryLine(st.queryCount + 1,
                                                 st.threadMap[entry.ThreadID], tsEntry))]
                  ELSE [st EXCEPT !.queryCount = @ + 1,
                                  !.output = Append(@, ErrorLine(st.queryCount + 1, "ERROR"))]
             ELSE IF ~rec
                  THEN [st EXCEPT !.threadMap =
                           [t \in DOMAIN @ \cup {entry.ThreadID} |->
                               IF t = entry.ThreadID THEN tsEntry ELSE @[t]]]
                  ELSE [st EXCEPT !.output =
                           Append(@, ErrorLine(st.queryCount, "VIEW CREATED EXPECTED"))]

\* A count of the QUERY lines: queryCount++ only where a start was recorded.
ProcessEntryCountsQueries(st, entry) ==
    IF entry.Logger # "TM1.MdxViewCreate" THEN st
    ELSE LET rec == entry.ThreadID \in DOMAIN st.threadMap
             tsEntry == ParsedStamps[entry.TimeStamp].time
         IN  IF entry.Message = "View is created."
             THEN IF rec
                  THEN [threadMap |-> [t \in DOMAIN st.threadMap \ {entry.ThreadID} |->
                                          st.threadMap[t]],
                        queryCount |-> st.queryCount + 1,
                        output |-> Append(st.output, QueryLine(st.queryCount + 1,
                                              st.threadMap[entry.ThreadID], tsEntry))]
                  ELSE [st EXCEPT !.output = Append(@, ErrorLine(st.queryCount, "ERROR"))]
             ELSE IF ~rec
                  THEN [st EXCEPT !.threadMap =
                           [t \in DOMAIN @ \cup {entry.ThreadID} |->
                               IF t = entry.ThreadID THEN tsEntry ELSE @[t]]]
                  ELSE [st EXCEPT !.output =
                           Append(@, ErrorLine(st.queryCount, "VIEW CREATED EXPECTED"))]

\* The body of the loop over the entries (main.go:78-112); time.Parse's
\* error is dropped, so an improper time stamp counts as the zero Time.
ProcessEntry(st, entry) ==
    IF entry.Logger # "TM1.MdxViewCreate" THEN st
    ELSE LET rec == entry.ThreadID \in DOMAIN st.threadMap
             tsEntry == ParsedStamps[entry.TimeStamp].time
         IN  IF entry.Message = "View is created."
             THEN IF rec
                  THEN [threadMap |-> [t \in DOMAIN st.threadMap \ {entry.ThreadID} |->
                                          st.threadMap[t]],
                        queryCount |-> st.queryCount + 1,
                        output |-> Append(st.output, QueryLine(st.queryCount + 1,
                                              st.threadMap[entry.ThreadID], tsEntry))]
                  ELSE [st EXCEPT !.queryCount = @ + 1,
                                  !.output = Append(@, ErrorLine(st.queryCount + 1, "ERROR"))]
             ELSE IF ~rec
                  THEN [st EXCEPT !.threadMap =
                           [t \in DOMAIN @ \cup {entry.ThreadID} |->
                               IF t = entry.ThreadID THEN tsEntry ELSE @[t]]]
                  ELSE [st EXCEPT !.output =
                           Append(@, ErrorLine(st.queryCount, "VIEW CREATED EXPECTED"))]

\* for _, entry := range res.MessageLogEntries { ... }
ProcessEntries(st, entries) ==
    LET acc[i \in 0..Len(entries)] ==
            IF i = 0 THEN st
            ELSE LET before == acc[i - 1]
                 IN  ProcessEntry(before, entries[i])
    IN  acc[Len(entries)]

\* The number of the response the last processed entry came in.
LastResponse == IF processed = <<>> THEN 0 ELSE processed[Len(processed)].response

EntryInit ==
    /\ fn = "processMessageLogEntries"
    /\ pc = "callback"
    /\ threadMap = NoThreads
    /\ queryCount = 0
    /\ output = <<>>
    /\ processed = <<>>
    /\ serviceRootURL \in ServiceRootURLs
    /\ path = ""
    /\ interval = 0
    /\ urlStr = ""
    /\ nextLink = ""
    /\ deltaLink = ""
    /\ resp = NoResp
    /\ body = NoBody
    /\ readErr = FALSE
    /\ openBodies = {}
    /\ trace = <<>>
    /\ args = NoArgs
    /\ env = NoEnv

\* One call of processMessageLogEntries with a response that unmarshals: its
\* entries are gone through in order; threadMap and queryCount are package
\* variables and stay from one call to the next.
EntryCallback ==
    /\ fn = "processMessageLogEntries"
    /\ pc = "callback"
    /\ \E n \in 1..(MaxEntries - Len(processed)) :
         \E entries \in [1..n -> MessageLogEntries] :
            LET st == ProcessEntries([threadMap |-> threadMap, queryCount |-> queryCount,
                                      output |-> output], entries)
            IN  /\ threadMap' = st.threadMap
                /\ queryCount' = st.queryCount
                /\ output' = st.output
                /\ processed' = processed \o
                       [i \in 1..n |-> [entry |-> entries[i], response |-> LastResponse + 1]]
    /\ UNCHANGED <<fn, serviceRootURL, path, interval, pc, urlStr, nextLink, deltaLink,
                   resp, body, readErr, openBodies, trace, callVars>>

EntryNext == EntryCallback

EntrySpec == EntryInit /\ [][EntryNext]_vars

----------------------------------------------------------------------------
\* Claims about the processing of entries

IsCreated(k) ==
    /\ processed[k].entry.Logger = "TM1.MdxViewCreate"
    /\ processed[k].entry.Message = "View is created."
IsStart(k) ==
    /\ processed[k].entry.Logger = "TM1.MdxViewCreate"
    /\ processed[k].entry.Message # "View is created."
SameThread(j, k) == processed[j].entry.ThreadID = processed[k].entry.ThreadID

\* The start entries of k's thread since the thread's last completion before k.
PendingStarts(k) ==
    {j \in 1..(k - 1) :
        /\ IsStart(j)
        /\ SameThread(j, k)
        /\ \A c \in (j + 1)..(k - 1) : ~(IsCreated(c) /\ SameThread(c, k))}
HasStart(k) == PendingStarts(k) # {}
RecordedStart(k) == CHOOSE j \in PendingStarts(k) : \A i \in PendingStarts(k) : j <= i

\* The completions that found a start recorded.
Completed == {k \in DOMAIN processed : IsCreated(k) /\ HasStart(k)}

CreatedCount(k) == Cardinality({j \in 1..k : IsCreated(j)})
QueryLines == {i \in DOMAIN output : output[i][1] = "QUERY"}
QueryLinesNumbered(n) == {i \in QueryLines : output[i][2] = Padded(n, 1)}

\* The time recorded for the start entry j: what time.Parse made of its stamp.
RecordedTime(j) == ParsedStamps[processed[j].entry.TimeStamp].time

\* C17: for every "View is created." entry of the TM1.MdxViewCreate logger
\* whose thread has a recorded start, exactly one QUERY line is printed, and
\* it carries the recorded start time, the entry's own time stamp as the end
\* and the seconds between the two as the duration; the start may have come
\* in an earlier response.
C17_QueryLinePerCompletedView ==
    /\ Cardinality(QueryLines) = Cardinality(Completed)
    /\ \A k \in Completed :
           LET lines == QueryLinesNumbered(CreatedCount(k))
               j == RecordedStart(k)
               between == Sub(ParseTime(processed[k].entry.TimeStamp).time, RecordedTime(j))
           IN  /\ Cardinality(lines) = 1
               /\ \A i \in lines :
                     /\ output[i][3] = FormatTime(RecordedTime(j))
                     /\ output[i][4] = processed[k].entry.TimeStamp
                     /\ between.sat = 0
                     /\ output[i][5] = SecondsText(between)

\* The texts of the QUERY line for the start entry j and the completion k
\* when both carry a proper time stamp.
LineFor(j, k) ==
    <<processed[j].entry.TimeStamp, processed[k].entry.TimeStamp,
      SecondsText(Sub(ParseTime(processed[k].entry.TimeStamp).time,
                      ParseTime(processed[j].entry.TimeStamp).time))>>

ProperStamp(k) == ~ParsedStamps[processed[k].entry.TimeStamp].err

\* What holds of C17: there is exactly one QUERY line for each such entry;
\* it carries the two times and their difference when both time stamps are
\* RFC 3339 texts; an improper time stamp is printed as the zero Time
\* 0001-01-01T00:00:00Z, and the duration against a proper one is the
\* longest or the shortest Duration.
C17_QueryLinePerCompletedViewProperStamps ==
    /\ Cardinality(QueryLines) = Cardinality(Completed)
    /\ \A k \in Completed :
           LET lines == QueryLinesNumbered(CreatedCount(k))
               j == RecordedStart(k)
           IN  /\ Cardinality(lines) = 1
               /\ \A i \in lines :
                     /\ (ProperStamp(j) /\ ProperStamp(k)) =>
                            SubSeq(output[i], 3, 5) = LineFor(j, k)
                     /\ ~ProperStamp(j) => output[i][3] = FormatTime(ZeroTime)
                     /\ ~ProperStamp(k) => output[i][4] = FormatTime(ZeroTime)
                     /\ (ProperStamp(j) /\ ~ProperStamp(k)) =>
                            output[i][5] = SecondsText([sat |-> -1, seconds |-> 0])
                     /\ (~ProperStamp(j) /\ ProperStamp(k)) =>
                            output[i][5] = SecondsText([sat |-> 1, seconds |-> 0])

----------------------------------------------------------------------------
\* Claims about read errors

\* The event a step has added to the history first.
Added == trace'[Len(trace) + 1]

\* C21: a read of a response body that fails does not end TrackCollection or
\* IterateCollection.  The read always leads to the callback; after a failed
\* read the callback is called with the bytes that were read and, when it
\* returns, what the loop does next follows from the links it returned: the
\* next link is requested, or the tracker sleeps and then asks for the delta
\* link, or the call returns.
C21_ReadErrorIsIgnored ==
    [][/\ pc = "read" =>
            /\ pc' = "process"
            /\ trace' = trace
            /\ <<body', readErr'>> \in ReadAll(resp.body)
       /\ (pc = "process" /\ readErr) =>
            /\ Len(trace') > Len(trace)
            /\ Added.type = "cb"
            /\ Added.bytes = body
            /\ Added.ok = body.valid
            /\ Added.ok =>
                 /\ Len(trace') = Len(trace) + 1
                 /\ Added.next = body.next
                 /\ nextLink' = Added.next
                 /\ IF Tracking
                    THEN pc' = "decide" /\ Added.delta = body.delta /\ deltaLink' = Added.delta
                    ELSE pc' = "loop"
       /\ (pc = "decide" /\ readErr) =>
            IF nextLink # ""
            THEN pc' = "loop" /\ urlStr' = nextLink /\ trace' = trace
            ELSE IF deltaLink # ""
            THEN pc' = "sleep" /\ trace' = Append(trace, SleepEvent(interval))
            ELSE pc' = "returned" /\ trace' = trace
       /\ (pc = "sleep" /\ readErr) =>
            pc' = "loop" /\ urlStr' = deltaLink /\ trace' = trace
      ]_vars

\* A second cycle's read failed after the whole document had arrived, the
\* callback returned a delta link and the tracker sleeps.
C21_Witness ==
    /\ Tracking
    /\ readErr
    /\ pc = "sleep"
    /\ NumCallbacks = 2
    /\ body.valid
    /\ trace[Len(trace) - 1] = CbEvent(body, TRUE, "", deltaLink)

----------------------------------------------------------------------------
\* Claims about threadMap and queryCount

\* The threads with a start entry that no completion of the thread has
\* followed yet, and the first such start of a thread.
StartsPending(t) ==
    {j \in DOMAIN processed :
        /\ IsStart(j)
        /\ processed[j].entry.ThreadID = t
        /\ \A c \in (j + 1)..Len(processed) :
              ~(IsCreated(c) /\ processed[c].entry.ThreadID = t)}
PendingThreads == {t \in ThreadIDs : StartsPending(t) # {}}
FirstPending(t) == CHOOSE j \in StartsPending(t) : \A i \in StartsPending(t) : j <= i

\* The entries that print a line: every completion, and every start of a
\* thread that is pending already.  Lines come out in the entries' order.
SecondStart(k) == IsStart(k) /\ HasStart(k)
Prints(k) == IsCreated(k) \/ SecondStart(k)
LineIndex(k) == Cardinality({j \in 1..k : Prints(j)})

\* C22: threadMap holds exactly the threads that have a TM1.MdxViewCreate
\* start entry with no "View is created." entry of that logger and thread
\* after it, under the time of the first such start; a start entry of a
\* thread that is pending already prints an ERROR line and leaves the
\* recorded time as it is; a completion removes the thread's record.
C22_ThreadMapHoldsPendingStarts ==
    /\ DOMAIN threadMap = PendingThreads
    /\ \A t \in PendingThreads : threadMap[t] = RecordedTime(FirstPending(t))
    /\ Len(output) = Cardinality({k \in DOMAIN processed : Prints(k)})
    /\ \A k \in DOMAIN processed :
          SecondStart(k) =>
              output[LineIndex(k)] =
                  <<"ERROR", Padded(CreatedCount(k), 1), "VIEW CREATED EXPECTED",
                    "ERROR", "0.000">>
    /\ \A k \in DOMAIN processed :
          (IsCreated(k) /\ k = Len(processed)) =>
              processed[k].entry.ThreadID \notin DOMAIN threadMap

\* Thread 1 started twice with different time stamps (the second start
\* printed the ERROR line), the completion printed the first start's time,
\* and the thread's record is gone.
C22_Witness ==
    /\ Len(processed) = 3
    /\ IsStart(1) /\ IsStart(2) /\ IsCreated(3)
    /\ \A k \in 1..3 : processed[k].entry.ThreadID = 1
    /\ processed[1].entry.TimeStamp = StampStart
    /\ processed[2].entry.TimeStamp = StampEnd
    /\ processed[3].entry.TimeStamp = StampEnd
    /\ processed[1].response = 1 /\ processed[3].response = 2
    /\ output[1][3] = "VIEW CREATED EXPECTED"
    /\ output[2] = <<"QUERY", <<"1">>, StampStart, StampEnd, <<"5", ".", "0", "0", "0">>>>
    /\ threadMap = NoThreads

\* Longer runs of entries that differ in logger, thread and message only.
MaxCounted == 5
CountedEntries == {e \in MessageLogEntries : e.TimeStamp = StampStart}

\* One call of processMessageLogEntries, as EntryCallback, on these entries.
CountCallback ==
    /\ fn = "processMessageLogEntries"
    /\ pc = "callback"
    /\ \E n \in 1..(MaxCounted - Len(processed)) :
         \E entries \in [1..n -> CountedEntries] :
            LET st == ProcessEntries([threadMap |-> threadMap, queryCount |-> queryCount,
                                      output |-> output], entries)
            IN  /\ threadMap' = st.threadMap
                /\ queryCount' = st.queryCount
                /\ output' = st.output
                /\ processed' = processed \o
                       [i \in 1..n |-> [entry |-> entries[i], response |-> LastResponse + 1]]
    /\ UNCHANGED <<fn, serviceRootURL, path, interval, pc, urlStr, nextLink, deltaLink,
                   resp, body, readErr, openBodies, trace, callVars>>

CountNext == CountCallback

CountSpec == EntryInit /\ [][CountNext]_vars

\* The number on a line.
LineNumber(i) == Number(output[i][2], 1, Len(output[i][2]))

\* The entries a step has gone through.
NewEntries == (Len(processed) + 1)..Len(processed')

\* C23: queryCount is the number of "View is created." entries of the
\* TM1.MdxViewCreate logger processed so far, with or without a recorded
\* start; every line carries the count at its entry, so the numbers on the
\* QUERY lines grow strictly; a call never lowers queryCount and raises it by
\* the number of such entries in its response; a response with entries of
\* other loggers only changes neither queryCount nor threadMap and prints
\* nothing.
C23_QueryCountCountsCompletions ==
    /\ [](/\ queryCount = Cardinality({k \in DOMAIN processed : IsCreated(k)})
          /\ Len(output) = Cardinality({k \in DOMAIN processed : Prints(k)})
          /\ \A k \in DOMAIN processed :
                Prints(k) => LineNumber(LineIndex(k)) = CreatedCount(k)
          /\ \A i \in QueryLines : \A j \in QueryLines :
                i < j => LineNumber(i) < LineNumber(j))
    /\ [][/\ queryCount' >= queryCount
          /\ queryCount' - queryCount =
                Cardinality({k \in NewEntries :
                    /\ processed'[k].entry.Logger = "TM1.MdxViewCreate"
                    /\ processed'[k].entry.Message = "View is created."})
          /\ (\A k \in NewEntries : processed'[k].entry.Logger # "TM1.MdxViewCreate") =>
                UNCHANGED <<threadMap, queryCount, output>>
         ]_vars

\* QUERY lines 1 and 3 around the ERROR line 2 of a completion without a
\* start, the last completion in a later response than the first.
C23_Witness ==
    /\ Len(processed) = 5
    /\ queryCount = 3
    /\ Len(output) = 3
    /\ QueryLines = {1, 3}
    /\ LineNumber(1) = 1 /\ LineNumber(3) = 3
    /\ output[2] = ErrorLine(2, "ERROR")
    /\ processed[5].response > processed[2].response

====
